---- MODULE Spec2Model ----
(***************************************************************************)
(* Chat endpoint of the task-management backend: POST /chat                *)
(* (api/routes/chat.py), the conversation service (services/               *)
(* conversation.py), the agent with its rule-based fallback (services/     *)
(* agent.py) and the task tools (services/mcp_tools.py), over one shared   *)
(* database.  Every request is a process of its own; its steps are the     *)
(* awaits of the handler.                                                  *)
(*                                                                         *)
(* Operators take the values they work on as parameters instead of naming  *)
(* them in LET, so that every definition is short.                         *)
(***************************************************************************)
EXTENDS Integers, Sequences, FiniteSets, TLC

\* ------------------------------------------------------------------ bounds
\* Number of POST /chat requests (each runs once, concurrently with the others).
NumRequests == 2
\* Longest tool_calls list the provider returns in one planning response.
MaxToolCalls == 2
\* Number of task ids the REST route may hand out (POST /users/{id}/tasks).
MaxApiTasks == 1
\* Last reading of the clock.
MaxClock == 2

\* ------------------------------------------------------- program constants
TitleMaxLen == 500
DescriptionMaxLen == 5000
HistoryLimit == 50

Users == {1, 2}
Requests == 1..NumRequests

\* Python's Optional[T]: None is <<>>, a value v is <<v>>.
None == <<>>
Some(v) == <<v>>
IsNone(o) == o = <<>>

\* ------------------------------------------------------------------ state
VARIABLES
    conversations,  \* table conversation: row id = index
    messages,       \* table message: row id = index
    logs,           \* table tool_invocation_logs: row id = index
    tasks,          \* table task: set of rows
    task_seq,       \* last task id handed out by the database
    rq,             \* per request: position in chat() and its local variables
    now             \* the clock datetime.utcnow() reads

vars == <<conversations, messages, logs, tasks, task_seq, rq, now>>

\* ---------------------------------------------------------- mcp_tools.py
\* What a tool call yields: the value returned or the exception text, and
\* the task rows as the session holds them after it.
ToolOk(out, T, seq) == [outputs |-> Some(out), error |-> None, tasks |-> T, task_seq |-> seq]
ToolRaise(msg, T, seq) == [outputs |-> None, error |-> Some(msg), tasks |-> T, task_seq |-> seq]

\* The dict a tool returns for a task row.
TaskDict(t) ==
    [task_id |-> t.id, title |-> t.title, description |-> t.description,
     completed |-> t.completed]

\* A create_task whose tasks start completed.
NewTaskCompleted(id, title, description, user_id) ==
    [id |-> id, title |-> title, description |-> description,
     user_id |-> user_id, completed |-> TRUE]

\* Task(title=..., description=..., user_id=..., completed=False)
NewTask(id, title, description, user_id) ==
    [id |-> id, title |-> title, description |-> description,
     user_id |-> user_id, completed |-> FALSE]

\* db.add(task); commit; return the dict
AddTask(task, T, seq) == ToolOk(TaskDict(task), T \cup {task}, seq + 1)

create_task(title, user_id, description, T, seq) ==
    IF title = "" \/ Len(title) > TitleMaxLen
    THEN ToolRaise("Title must be between 1 and 500 characters", T, seq)
    ELSE IF ~IsNone(description) /\ description[1] # ""
            /\ Len(description[1]) > DescriptionMaxLen
    THEN ToolRaise("Description must be less than 5000 characters", T, seq)
    ELSE AddTask(NewTask(seq + 1, title, description, user_id), T, seq)

\* The dict list_tasks returns for the rows selected.
TaskList(rows) == [tasks |-> {TaskDict(t) : t \in rows}, total_count |-> Cardinality(rows)]

list_tasks(user_id, completed, T, seq) ==
    ToolOk(TaskList({t \in T : /\ t.user_id = user_id
                               /\ (IsNone(completed) \/ t.completed = completed[1])}),
           T, seq)

\* select(Task).where(Task.id == task_id, Task.user_id == user_id)
FindTaskOfAnyUser(task_id, user_id, T) == {t \in T : t.id = task_id}

FindTask(task_id, user_id, T) == {t \in T : t.id = task_id /\ t.user_id = user_id}

\* The text update_task raises with, "" if the new values are valid.
UpdateError(title, description) ==
    IF ~IsNone(title) /\ (title[1] = "" \/ Len(title[1]) > TitleMaxLen)
    THEN "Title must be between 1 and 500 characters"
    ELSE IF ~IsNone(description) /\ Len(description[1]) > DescriptionMaxLen
    THEN "Description must be less than 5000 characters"
    ELSE ""

\* The row after update_task assigned the fields given.
UpdatedTask(task, title, description, completed) ==
    [task EXCEPT !.title = IF IsNone(title) THEN @ ELSE title[1],
                 !.description = IF IsNone(description) THEN @ ELSE description,
                 !.completed = IF IsNone(completed) THEN @ ELSE completed[1]]

\* commit and return the dict of the updated row
StoreTask(old, new, T, seq) == ToolOk(TaskDict(new), (T \ {old}) \cup {new}, seq)

\* The row when update_task raises: task.title is assigned before the
\* description is checked, and the session is not rolled back.
AssignedBeforeRaise(task, title) ==
    IF ~IsNone(title) /\ title[1] # "" /\ Len(title[1]) <= TitleMaxLen
    THEN [task EXCEPT !.title = title[1]] ELSE task

UpdateFound(task, err, title, description, completed, T, seq) ==
    IF err # "" THEN ToolRaise(err, (T \ {task}) \cup {AssignedBeforeRaise(task, title)}, seq)
    ELSE StoreTask(task, UpdatedTask(task, title, description, completed), T, seq)

\* f"Task {task_id} not found or does not belong to user"
NotFoundError(task_id) ==
    "Task " \o ToString(task_id) \o " not found or does not belong to user"

UpdateIn(found, task_id, title, description, completed, T, seq) ==
    IF found = {}
    THEN ToolRaise(NotFoundError(task_id), T, seq)
    ELSE UpdateFound(CHOOSE t \in found : TRUE, UpdateError(title, description),
                     title, description, completed, T, seq)

update_task(task_id, user_id, title, description, completed, T, seq) ==
    UpdateIn(FindTask(task_id, user_id, T), task_id, title, description, completed, T, seq)

DeleteIn(found, task_id, T, seq) ==
    IF found = {}
    THEN ToolRaise(NotFoundError(task_id), T, seq)
    ELSE ToolOk([success |-> TRUE, message |-> "Task deleted successfully",
                 deleted_task_id |-> task_id], T \ found, seq)

delete_task(task_id, user_id, T, seq) ==
    DeleteIn(FindTask(task_id, user_id, T), task_id, T, seq)

\* ---------------------------------------------------------------- strings
At(s, i) == SubSeq(s, i, i)
IsSpace(c) == c \in {" ", "\t", "\n"}
StartsAt(s, i, w) == i + Len(w) - 1 <= Len(s) /\ SubSeq(s, i, i + Len(w) - 1) = w
EndsWith(s, w) == Len(w) <= Len(s) /\ SubSeq(s, Len(s) - Len(w) + 1, Len(s)) = w
\* `sub in s`
Contains(s, sub) == \E i \in 1..(Len(s) - Len(sub) + 1) : StartsAt(s, i, sub)
\* any(word in s for word in words)
AnyIn(words, s) == \E w \in words : Contains(s, w)
\* First position at or after i that holds no whitespace (Len(s) + 1 if none).
SkipSpaces(s, i) ==
    CHOOSE j \in i..(Len(s) + 1) :
        /\ \A k \in i..(j - 1) : IsSpace(At(s, k))
        /\ j = Len(s) + 1 \/ ~IsSpace(At(s, j))
\* Last position from a on that holds no whitespace.
LastNonSpace(s, a) ==
    CHOOSE j \in a..Len(s) :
        ~IsSpace(At(s, j)) /\ \A k \in (j + 1)..Len(s) : IsSpace(At(s, k))
StripFrom(s, a) == IF a > Len(s) THEN "" ELSE SubSeq(s, a, LastNonSpace(s, a))
\* str.strip()
Strip(s) == StripFrom(s, SkipSpaces(s, 1))
LowerChar(c) ==
    CASE c = "A" -> "a" [] c = "B" -> "b" [] c = "C" -> "c" [] c = "D" -> "d"
      [] c = "E" -> "e" [] c = "F" -> "f" [] c = "G" -> "g" [] c = "H" -> "h"
      [] c = "I" -> "i" [] c = "J" -> "j" [] c = "K" -> "k" [] c = "L" -> "l"
      [] c = "M" -> "m" [] c = "N" -> "n" [] c = "O" -> "o" [] c = "P" -> "p"
      [] c = "Q" -> "q" [] c = "R" -> "r" [] c = "S" -> "s" [] c = "T" -> "t"
      [] c = "U" -> "u" [] c = "V" -> "v" [] c = "W" -> "w" [] c = "X" -> "x"
      [] c = "Y" -> "y" [] c = "Z" -> "z" [] OTHER -> c
RECURSIVE Lower(_)
\* str.lower()
Lower(s) ==
    IF Len(s) <= 1 THEN LowerChar(s)
    ELSE Lower(SubSeq(s, 1, Len(s) \div 2)) \o Lower(SubSeq(s, Len(s) \div 2 + 1, Len(s)))

\* ------------------------------------------------- agent.py: _execute_tool
tool_map == {"create_task", "list_tasks", "update_task", "delete_task"}

\* The keyword parameters of each tool besides user_id and db.
Allowed(name) ==
    CASE name = "create_task" -> {"title", "description"}
      [] name = "list_tasks" -> {"completed"}
      [] name = "update_task" -> {"task_id", "title", "description", "completed"}
      [] name = "delete_task" -> {"task_id"}
Required(name) ==
    CASE name = "create_task" -> {"title"}
      [] name = "list_tasks" -> {}
      [] name = "update_task" -> {"task_id"}
      [] name = "delete_task" -> {"task_id"}

\* A keyword argument left out takes its default, None.
Arg(args, k) == IF k \in DOMAIN args THEN Some(args[k]) ELSE None

\* tool_func(user_id=user_id, db=db, **tool_args) once the keywords bind.
CallTool(tool_name, tool_args, user_id, T, seq) ==
    CASE tool_name = "create_task" ->
            create_task(tool_args.title, user_id, Arg(tool_args, "description"), T, seq)
      [] tool_name = "list_tasks" ->
            list_tasks(user_id, Arg(tool_args, "completed"), T, seq)
      [] tool_name = "update_task" ->
            update_task(tool_args.task_id, user_id, Arg(tool_args, "title"),
                        Arg(tool_args, "description"), Arg(tool_args, "completed"), T, seq)
      [] tool_name = "delete_task" ->
            delete_task(tool_args.task_id, user_id, T, seq)

\* A dispatcher that lets a user_id among the arguments name the acting user.
ExecuteToolAsArgsUser(tool_name, tool_args, user_id, T, seq) ==
    IF tool_name \notin tool_map
    THEN ToolRaise("Unknown tool", T, seq)
    ELSE IF "user_id" \in DOMAIN tool_args
    THEN CallTool(tool_name, [k \in DOMAIN tool_args \ {"user_id"} |-> tool_args[k]],
                  tool_args.user_id, T, seq)
    ELSE CallTool(tool_name, tool_args, user_id, T, seq)

execute_tool(tool_name, tool_args, user_id, T, seq) ==
    IF tool_name \notin tool_map
    THEN ToolRaise("Unknown tool", T, seq)
    ELSE IF DOMAIN tool_args \cap {"user_id", "db"} # {}
    THEN ToolRaise("got multiple values for keyword argument", T, seq)
    ELSE IF ~(DOMAIN tool_args \subseteq Allowed(tool_name))
    THEN ToolRaise("got an unexpected keyword argument", T, seq)
    ELSE IF ~(Required(tool_name) \subseteq DOMAIN tool_args)
    THEN ToolRaise("missing required argument", T, seq)
    ELSE CallTool(tool_name, tool_args, user_id, T, seq)

\* {**tool_args, "user_id": user_id}
WithUserId(tool_args, user_id) ==
    [k \in DOMAIN tool_args \cup {"user_id"} |->
        IF k = "user_id" THEN user_id ELSE tool_args[k]]

\* json.loads of a tool call's arguments: the object, or an exception.
json_loads(arguments) ==
    IF arguments.wellformed THEN [ok |-> TRUE, value |-> arguments.object]
    ELSE [ok |-> FALSE, value |-> <<>>]

\* One entry of tool_invocations.
Invocation(tool, inputs, res) ==
    [tool |-> tool, inputs |-> inputs, outputs |-> res.outputs, error |-> res.error]

\* -------------------------------------------- agent.py: rule-based fallback
\* The title pattern of the fallback,
\*   (?:create|add|make|new)\s+(?:a\s+)?(?:task\s+(?:to|called|for)\s+|to\s+)?(.+?)(?:\.|$)
\* is matched position by position.  Messages are single-spaced: a run of
\* whitespace that the pattern could split between \s+ and the group is not
\* among the inputs.
Keywords == {"create", "add", "make", "new"}

\* The word of `words` that stands at y and is followed by whitespace.
WordsAt(s, y, words) ==
    {w \in words : StartsAt(s, y, w) /\ y + Len(w) <= Len(s) /\ IsSpace(At(s, y + Len(w)))}

\* Position after (?:to|called|for)\s+ matched at y, 0 without a match.
AfterWord(s, y, ws) ==
    IF ws = {} THEN 0 ELSE SkipSpaces(s, y + Len(CHOOSE w \in ws : TRUE))

\* Position after (?:task\s+(?:to|called|for)\s+|to\s+) matched at x, 0 if it
\* does not match there.
AfterTaskPhrase(s, x) ==
    IF WordsAt(s, x, {"task"}) # {}
    THEN AfterWord(s, SkipSpaces(s, x + 4),
                   WordsAt(s, SkipSpaces(s, x + 4), {"to", "called", "for"}))
    ELSE AfterWord(s, x, WordsAt(s, x, {"to"}))

\* The first alternative, in the order the matcher tries them, that leaves
\* at least one character to (.+?); 0 if none does.
FirstGood(cands, len) ==
    IF \A k \in 1..Len(cands) : cands[k] = 0 \/ cands[k] > len THEN 0
    ELSE cands[CHOOSE k \in 1..Len(cands) :
                  /\ cands[k] # 0 /\ cands[k] <= len
                  /\ \A k2 \in 1..(k - 1) : cands[k2] = 0 \/ cands[k2] > len]

\* q: after \s+ ; a: after (?:a\s+), 0 if that part does not match.
GroupStartAfterA(s, q, a) ==
    FirstGood(<< IF a = 0 THEN 0 ELSE AfterTaskPhrase(s, a), a,
                 AfterTaskPhrase(s, q), q >>, Len(s))

GroupStartAfterSpaces(s, q) == GroupStartAfterA(s, q, AfterWord(s, q, WordsAt(s, q, {"a"})))

\* Where group 1 of the title pattern starts when the keyword ends just before
\* p, 0 if the pattern does not match there.  The optional parts are tried
\* first and given up when nothing would be left for (.+?).
GroupStart(s, p) ==
    IF p > Len(s) \/ ~IsSpace(At(s, p)) THEN 0
    ELSE GroupStartAfterSpaces(s, SkipSpaces(s, p))

\* Group start of a match of the pattern that begins at i, 0 if none does.
MatchAt(s, i, kws) ==
    IF kws = {} THEN 0 ELSE GroupStart(s, i + Len(CHOOSE kw \in kws : TRUE))

\* Group start of the leftmost match, 0 if there is none.
LeftmostMatch(starts) ==
    IF \A i \in DOMAIN starts : starts[i] = 0 THEN 0
    ELSE starts[CHOOSE i \in DOMAIN starts :
                   starts[i] # 0 /\ \A k \in 1..(i - 1) : starts[k] = 0]

\* (.+?)(?:\.|$) from j: up to the first "." after at least one character.
GroupFrom(s, j) ==
    IF j = 0 THEN None
    ELSE Some(SubSeq(s, j, CHOOSE x \in j..Len(s) :
                              /\ x = Len(s) \/ At(s, x + 1) = "."
                              /\ \A y \in j..(x - 1) : At(s, y + 1) # "."))

\* re.search(pattern, message_content).group(1), None without a match.
SearchTitle(s) ==
    GroupFrom(s, LeftmostMatch([i \in 1..Len(s) |->
                                   MatchAt(s, i, {kw \in Keywords : StartsAt(s, i, kw)})]))

DropWord(title, ws) ==
    IF ws = {} THEN title
    ELSE Strip(SubSeq(title, 1, Len(title) - Len(CHOOSE w \in ws : TRUE)))

\* re.sub(r'\s*(please|now|today|tomorrow)\s*$', '', title).strip() of a
\* stripped title.
DropFiller(title) ==
    DropWord(title, {w \in {"please", "now", "today", "tomorrow"} : EndsWith(title, w)})

\* An extraction that keeps an empty title.
KeepEmptyTitle(title) == title

OrSampleTask(title) == IF title = "" THEN "sample task" ELSE title

TitleOfMatch(m) ==
    IF IsNone(m) THEN "sample task" ELSE OrSampleTask(DropFiller(Strip(m[1])))

ExtractTitle(message_content) == TitleOfMatch(SearchTitle(message_content))

\* f"\n{i}. {task['title']} ({status})" for the tasks in id order.
TaskLine(t, i) ==
    "\n" \o ToString(i) \o ". " \o t.title \o " ("
    \o (IF t.completed THEN "completed" ELSE "not completed") \o ")"

FirstTask(rows) == CHOOSE x \in rows : \A y \in rows : x.task_id <= y.task_id

RECURSIVE TaskLines(_, _)
TaskLines(rows, i) ==
    IF rows = {} THEN ""
    ELSE TaskLine(FirstTask(rows), i) \o TaskLines(rows \ {FirstTask(rows)}, i + 1)

\* What the except branch yields: the reply, the tool invocations and the
\* task table after it.
FallbackResult(text, invs, T, seq) ==
    [response_text |-> text, tool_invocations |-> invs, tasks |-> T, task_seq |-> seq]

FallbackCreated(title, user_id, res) ==
    FallbackResult(
        IF IsNone(res.error)
        THEN "I've created a task '" \o title \o "' for you."
        ELSE "I had trouble creating the task '" \o title \o "': " \o res.error[1],
        << Invocation("create_task", [title |-> title, user_id |-> user_id], res) >>,
        res.tasks, res.task_seq)

FallbackCreate(title, user_id, T, seq) ==
    FallbackCreated(title, user_id, create_task(title, user_id, None, T, seq))

FallbackListed(user_id, res) ==
    FallbackResult(
        IF res.outputs[1].total_count = 0
        THEN "You don't have any tasks yet. You can create one by asking me to create a task."
        ELSE "You have " \o ToString(res.outputs[1].total_count) \o " tasks:"
             \o TaskLines(res.outputs[1].tasks, 1),
        << Invocation("list_tasks", [user_id |-> user_id], res) >>,
        res.tasks, res.task_seq)

\* The update intent: no tool is called.
FallbackUpdate(user_id, T, seq) ==
    FallbackResult("I can help you update tasks. Please specify which task you'd like to update and what changes to make.", <<>>, T, seq)

\* A fallback that deletes the caller's tasks on a delete intent.
FallbackDeleteAll(user_id, T, seq) ==
    FallbackResult("I can help you delete tasks. Please specify which task you'd like to delete.",
                   << Invocation("delete_task", [user_id |-> user_id],
                                 ToolOk([success |-> TRUE], T, seq)) >>,
                   {t \in T : t.user_id # user_id}, seq)

\* The delete intent: no tool is called.
FallbackDelete(user_id, T, seq) ==
    FallbackResult("I can help you delete tasks. Please specify which task you'd like to delete.", <<>>, T, seq)

\* An except branch that tests the create words before the greeting words.
FallbackCreateFirst(message_content, content, user_id, T, seq) ==
    IF AnyIn(Keywords, message_content)
    THEN FallbackCreate(ExtractTitle(message_content), user_id, T, seq)
    ELSE IF AnyIn({"hello", "hi", "hey"}, message_content)
    THEN FallbackResult("Hello! I'm your AI task assistant. You can ask me to create, list, update, or delete tasks.", <<>>, T, seq)
    ELSE IF AnyIn({"show", "list", "view", "see", "my tasks"}, message_content)
    THEN FallbackListed(user_id, list_tasks(user_id, None, T, seq))
    ELSE IF AnyIn({"update", "complete", "done", "finish"}, message_content)
    THEN FallbackUpdate(user_id, T, seq)
    ELSE IF AnyIn({"delete", "remove"}, message_content)
    THEN FallbackDelete(user_id, T, seq)
    ELSE FallbackResult("I received your message: '" \o content
                        \o "' and I'm ready to help you manage your tasks.", <<>>, T, seq)

FallbackOn(message_content, content, user_id, T, seq) ==
    IF AnyIn({"hello", "hi", "hey"}, message_content)
    THEN FallbackResult("Hello! I'm your AI task assistant. You can ask me to create, list, update, or delete tasks.", <<>>, T, seq)
    ELSE IF AnyIn(Keywords, message_content)
    THEN FallbackCreate(ExtractTitle(message_content), user_id, T, seq)
    ELSE IF AnyIn({"show", "list", "view", "see", "my tasks"}, message_content)
    THEN FallbackListed(user_id, list_tasks(user_id, None, T, seq))
    ELSE IF AnyIn({"update", "complete", "done", "finish"}, message_content)
    THEN FallbackUpdate(user_id, T, seq)
    ELSE IF AnyIn({"delete", "remove"}, message_content)
    THEN FallbackDelete(user_id, T, seq)
    ELSE FallbackResult("I received your message: '" \o content
                        \o "' and I'm ready to help you manage your tasks.", <<>>, T, seq)

\* The except branch of AgentService.chat.
Fallback(content, user_id, T, seq) ==
    FallbackOn(Lower(content), content, user_id, T, seq)

\* ------------------------------------------------------------- inputs
\* request.message of POST /chat.
Messages ==
    {"hi", "Create a task to buy milk", "show my tasks", "finish homework", "remove it"}

\* What the provider may ask for: a tool name and its arguments as JSON text.
Json(obj) == [wellformed |-> TRUE, object |-> obj]
MalformedJson == [wellformed |-> FALSE, object |-> <<>>]
ToolCallChoices ==
    { [name |-> "create_task", arguments |-> Json([title |-> "buy milk"])],
      [name |-> "create_task", arguments |-> Json([title |-> "spy", user_id |-> 2])],
      [name |-> "list_tasks", arguments |-> Json(<<>>)],
      [name |-> "update_task", arguments |-> Json([task_id |-> 1, completed |-> TRUE])],
      [name |-> "delete_task", arguments |-> Json([task_id |-> 1])],
      [name |-> "drop_tasks", arguments |-> Json(<<>>)],
      [name |-> "list_tasks", arguments |-> MalformedJson] }

\* assistant_message.tool_calls: 1..MaxToolCalls calls, each with its own id.
PlansOfLength(n) ==
    { [i \in 1..n |-> [id |-> i, name |-> f[i].name, arguments |-> f[i].arguments]]
        : f \in [1..n -> ToolCallChoices] }
Plans == UNION { PlansOfLength(n) : n \in 1..MaxToolCalls }

\* The inputs of the concurrent runs.
SmallMessages == {"hi", "add eggs"}
SmallPlans ==
    { << [id |-> 1, name |-> "create_task", arguments |-> Json([title |-> "buy milk"])] >>,
      << [id |-> 1, name |-> "delete_task", arguments |-> MalformedJson] >> }

\* Strings of a given length, for the length limits.
RECURSIVE Repeat(_, _)
Repeat(c, n) ==
    IF n = 0 THEN ""
    ELSE IF n % 2 = 1 THEN c \o Repeat(c, n - 1)
    ELSE Repeat(c \o c, n \div 2)
LongTitle == Repeat("t", TitleMaxLen + 1)
LongDescription == Repeat("d", DescriptionMaxLen + 1)

\* The messages that go with them: the fallback greets, lists or creates.
ArgMessages == {"hi", "show my tasks", "add eggs"}

\* A planning response that creates two tasks, fails to update the first
\* after its title was assigned, and deletes the second.
PartialUpdatePlan ==
    << [id |-> 1, name |-> "create_task", arguments |-> Json([title |-> "buy milk"])],
       [id |-> 2, name |-> "create_task", arguments |-> Json([title |-> "buy eggs"])],
       [id |-> 3, name |-> "update_task",
        arguments |-> Json([task_id |-> 1, title |-> "call mum",
                            description |-> LongDescription])],
       [id |-> 4, name |-> "delete_task", arguments |-> Json([task_id |-> 2])] >>

\* A planning response that fails to update task 1 after its title was
\* assigned, and then marks the same task completed.
RetryUpdatePlan ==
    << [id |-> 1, name |-> "update_task",
        arguments |-> Json([task_id |-> 1, title |-> "call mum",
                            description |-> LongDescription])],
       [id |-> 2, name |-> "update_task",
        arguments |-> Json([task_id |-> 1, completed |-> TRUE])] >>

\* Planning responses that try the tools' argument checks: the plans above
\* and plans of one call.
ArgPlans ==
    {PartialUpdatePlan, RetryUpdatePlan} \cup
    { << [id |-> 1, name |-> c.name, arguments |-> c.arguments] >> : c \in
        { [name |-> "create_task", arguments |-> Json([title |-> ""])],
          [name |-> "create_task", arguments |-> Json([title |-> " "])],
          [name |-> "create_task", arguments |-> Json([title |-> LongTitle])],
          [name |-> "create_task",
           arguments |-> Json([title |-> "call mum", description |-> LongDescription])],
          [name |-> "create_task",
           arguments |-> Json([title |-> "spy", completed |-> TRUE])],
          [name |-> "create_task",
           arguments |-> Json([title |-> "spy", user_id |-> 2, completed |-> TRUE])],
          [name |-> "update_task", arguments |-> Json([task_id |-> 1, title |-> ""])],
          [name |-> "update_task", arguments |-> Json([task_id |-> 1, title |-> " "])],
          [name |-> "update_task",
           arguments |-> Json([task_id |-> 1, description |-> LongDescription])],
          [name |-> "update_task",
           arguments |-> Json([task_id |-> 1, title |-> "call mum",
                               description |-> LongDescription])],
          [name |-> "update_task", arguments |-> MalformedJson] } }

\* Messages for the except branch: several intents at once, no intent, and
\* titles the extraction leaves empty or too long.
FallbackMessages ==
    Messages \cup
    {"hi, add milk", "show my new tasks", "list done tasks", "remove done", "ok",
     "add please", "renew", "add " \o LongTitle}

\* message.content of a provider response: text, or null.
PlanText == "How can I help?"
GroundText == "Done."
PlanContents == {Some(PlanText), None}
GroundContents == {Some(GroundText), None}

\* ------------------------------------------------------ conversation.py
\* The ids of the message rows of conversation c.
MessagesOf(c) == {k \in DOMAIN messages : messages[k].conversation_id = c}

Largest(seqs) == IF seqs = {} THEN None ELSE Some(CHOOSE x \in seqs : \A y \in seqs : y <= x)

\* select(func.max(Message.sequence_number)).where(conversation_id == c)
MaxSequenceNumber(c) == Largest({messages[k].sequence_number : k \in MessagesOf(c)})

\* max_seq = result.scalar() or -1 ; next_seq = max_seq + 1
NextSeq(scalar) == (IF IsNone(scalar) \/ scalar[1] = 0 THEN -1 ELSE scalar[1]) + 1

\* An add_message that stores a summary also for an empty list.
MessageRowAlwaysSummary(c, role, content, seq, tool_invocations, by) ==
    [conversation_id |-> c, role |-> role, content |-> content,
     sequence_number |-> seq,
     tool_invocations |-> Some(tool_invocations),
     by |-> by]

\* The row add_message inserts; `by` records the request that appended it.
MessageRow(c, role, content, seq, tool_invocations, by) ==
    [conversation_id |-> c, role |-> role, content |-> content,
     sequence_number |-> seq,
     tool_invocations |-> IF tool_invocations # <<>> THEN Some(tool_invocations) ELSE None,
     by |-> by]

\* The ownership check of load_conversation_messages.
OwnershipIgnored(c, user_id) == c \in DOMAIN conversations

ConversationFound(c, user_id) ==
    c \in DOMAIN conversations /\ conversations[c].user_id = user_id

\* The orders `ORDER BY sequence_number DESC` may give the rows `ids`; rows
\* with equal sequence numbers come in any order.
Descending(ids, n) ==
    {f \in [1..n -> ids] :
        /\ \A i, j \in 1..n : i # j => f[i] # f[j]
        /\ \A i, j \in 1..n :
              i < j => messages[f[i]].sequence_number >= messages[f[j]].sequence_number}

\* The first m rows of f, reversed, in the provider's format.
Chronological(f, m) ==
    [i \in 1..m |-> [role |-> messages[f[m + 1 - i]].role,
                     content |-> messages[f[m + 1 - i]].content]]

Limited(desc, n, limit) ==
    {Chronological(f, IF n < limit THEN n ELSE limit) : f \in desc}

\* The results load_conversation_messages may return.
Histories(c, limit) ==
    Limited(Descending(MessagesOf(c), Cardinality(MessagesOf(c))),
            Cardinality(MessagesOf(c)), limit)

\* The row log_tool_invocation inserts for one entry of tool_invocations.
LogRowAlwaysSuccess(user_id, tool_inv, message_id) ==
    [user_id |-> user_id, message_id |-> message_id, tool_name |-> tool_inv.tool,
     inputs |-> tool_inv.inputs,
     outputs |-> IF ~IsNone(tool_inv.outputs) /\ DOMAIN tool_inv.outputs[1] # {}
                 THEN tool_inv.outputs ELSE None,
     success |-> TRUE,
     error_message |-> tool_inv.error]

LogRow(user_id, tool_inv, message_id) ==
    [user_id |-> user_id, message_id |-> message_id, tool_name |-> tool_inv.tool,
     inputs |-> tool_inv.inputs,
     outputs |-> IF ~IsNone(tool_inv.outputs) /\ DOMAIN tool_inv.outputs[1] # {}
                 THEN tool_inv.outputs ELSE None,
     success |-> IsNone(tool_inv.error),
     error_message |-> tool_inv.error]

\* ------------------------------------------------------ the chat handler
\* A request before it arrives.  provider_calls, executed and fell_back are
\* history variables: the provider calls made, the tool runs performed and
\* whether the except branch of AgentService.chat ran.  provider_requests
\* holds the requests AgentService.chat has sent to the provider, and dirty the
\* task rows the request's database session has assigned to and not committed.
\* read_from is the time at which the add_message under way ran its SELECT.
InitRq ==
    [pc |-> "start", user_id |-> 0, request_conversation_id |-> None, message |-> "",
     conversation_id |-> 0, conversation_history |-> <<>>, next_seq |-> 0,
     tool_calls |-> <<>>, tool_invocations |-> <<>>, response_text |-> None,
     assistant_message_id |-> 0, log_i |-> 0,
     provider_requests |-> <<>>, dirty |-> {}, read_from |-> 0,
     provider_calls |-> 0, executed |-> <<>>, fell_back |-> FALSE]

Init ==
    /\ conversations = <<>>
    /\ messages = <<>>
    /\ logs = <<>>
    /\ tasks = {}
    /\ task_seq = 0
    /\ rq = [r \in Requests |-> InitRq]
    /\ now = 0

\* Time passes.
Tick ==
    /\ now < MaxClock
    /\ now' = now + 1
    /\ UNCHANGED <<conversations, messages, logs, tasks, task_seq, rq>>

\* Conversation(user_id=..., created_at=utcnow(), updated_at=utcnow())
NewConversation(user_id) == [user_id |-> user_id, created_at |-> now, updated_at |-> now]

\* conversation.updated_at = datetime.utcnow(), read at time t.
Touched(c, t) == [conversations EXCEPT ![c].updated_at = t]

\* No table changes and the clock stands.
DbUnchanged == UNCHANGED <<now, conversations, messages, logs, tasks, task_seq>>

\* POST /users/{user_id}/tasks by an authenticated user.
ApiCreateTask(u) ==
    /\ task_seq < MaxApiTasks
    /\ tasks' = tasks \cup {NewTask(task_seq + 1, "groceries", None, u)}
    /\ task_seq' = task_seq + 1
    /\ UNCHANGED <<now, conversations, messages, logs, rq>>

\* A create_conversation that gives the new conversation to any user.
CreateConversationForAnyUser(r, M) ==
    /\ rq[r].pc = "start"
    /\ \E u \in Users, owner \in Users, m \in M :
          /\ conversations' = Append(conversations, NewConversation(owner))
          /\ rq' = [rq EXCEPT ![r].pc = "user_seq", ![r].user_id = u, ![r].message = m,
                               ![r].conversation_id = Len(conversations) + 1]
    /\ UNCHANGED <<now, messages, logs, tasks, task_seq>>

\* chat(): no conversation_id in the request, create_conversation.
CreateConversation(r, M) ==
    /\ rq[r].pc = "start"
    /\ \E u \in Users, m \in M :
          /\ conversations' = Append(conversations, NewConversation(u))
          /\ rq' = [rq EXCEPT ![r].pc = "user_seq", ![r].user_id = u, ![r].message = m,
                               ![r].conversation_id = Len(conversations) + 1]
    /\ UNCHANGED <<now, messages, logs, tasks, task_seq>>

\* A handler that opens a new conversation when the one asked for is missing.
ConversationNotFoundCreates(r, M) ==
    /\ rq[r].pc = "start"
    /\ \E u \in Users, m \in M, c \in 1..(Len(conversations) + 1) :
          /\ ~ConversationFound(c, u)
          /\ conversations' = Append(conversations, NewConversation(u))
          /\ rq' = [rq EXCEPT ![r].pc = "user_seq", ![r].user_id = u, ![r].message = m,
                               ![r].request_conversation_id = Some(c),
                               ![r].conversation_id = Len(conversations) + 1]
    /\ UNCHANGED <<now, messages, logs, tasks, task_seq>>

\* chat(): load_conversation_messages raises, the handler answers 404.
ConversationNotFound(r, M) ==
    /\ rq[r].pc = "start"
    /\ \E u \in Users, m \in M, c \in 1..(Len(conversations) + 1) :
          /\ ~ConversationFound(c, u)
          /\ rq' = [rq EXCEPT ![r].pc = "not_found", ![r].user_id = u, ![r].message = m,
                               ![r].request_conversation_id = Some(c)]
    /\ DbUnchanged

\* chat(): load_conversation_messages returns the history.
LoadConversation(r, M) ==
    /\ rq[r].pc = "start"
    /\ \E u \in Users, m \in M, c \in 1..(Len(conversations) + 1) :
          /\ ConversationFound(c, u)
          /\ \E h \in Histories(c, HistoryLimit) :
                rq' = [rq EXCEPT ![r].pc = "user_seq", ![r].user_id = u, ![r].message = m,
                                 ![r].request_conversation_id = Some(c),
                                 ![r].conversation_id = c,
                                 ![r].conversation_history = h]
    /\ DbUnchanged

\* add_message(role="user"): the SELECT max(sequence_number).
UserSeq(r) ==
    /\ rq[r].pc = "user_seq"
    /\ rq' = [rq EXCEPT ![r].pc = "user_commit", ![r].read_from = now,
                         ![r].next_seq = NextSeq(MaxSequenceNumber(rq[r].conversation_id))]
    /\ DbUnchanged

\* A handler that calls the agent before the user message is stored.
UserCommitNotStored(r) ==
    /\ rq[r].pc = "user_commit"
    /\ rq' = [rq EXCEPT ![r].pc = "plan",
                         ![r].conversation_history =
                             Append(@, [role |-> "user", content |-> rq[r].message])]
    /\ DbUnchanged

\* add_message(role="user"): the commit, with the time read since the
\* SELECT as the conversation's updated_at; then the handler extends the
\* history.
UserCommit(r) ==
    /\ rq[r].pc = "user_commit"
    /\ messages' = Append(messages,
                          MessageRow(rq[r].conversation_id, "user", rq[r].message,
                                     rq[r].next_seq, <<>>, r))
    /\ \E t \in rq[r].read_from..now : conversations' = Touched(rq[r].conversation_id, t)
    /\ rq' = [rq EXCEPT ![r].pc = "plan", ![r].read_from = 0,
                         ![r].conversation_history =
                             Append(@, [role |-> "user", content |-> rq[r].message])]
    /\ UNCHANGED <<now, logs, tasks, task_seq>>

\* full_messages: the system prompt, then the history.
full_messages(history) == <<[role |-> "system", content |-> "SYSTEM_PROMPT"]>> \o history

\* chat.completions.create(messages=full_messages, tools=self.TOOLS, ...)
PlanRequest(history) == [messages |-> full_messages(history), tools |-> TRUE]

\* json.dumps of a value.
json_dumps(value) == [wellformed |-> TRUE, object |-> value]

\* The assistant turn that repeats the tool calls asked for.
ToolCallTurn(tool_calls) ==
    [role |-> "assistant", content |-> "",
     tool_calls |-> [i \in DOMAIN tool_calls |->
                        [id |-> tool_calls[i].id, type |-> "function",
                         function |-> [name |-> tool_calls[i].name,
                                       arguments |-> tool_calls[i].arguments]]]]

\* tool_invocations[i].get("outputs") or {"error": tool_invocations[i].get("error")}
ToolPayload(inv) ==
    IF ~IsNone(inv.outputs) /\ DOMAIN inv.outputs[1] # {} THEN inv.outputs[1]
    ELSE [error |-> inv.error]

\* Tool turns that carry the call ids in the reverse order.
ToolTurnsReversed(tool_calls, tool_invocations) ==
    [i \in DOMAIN tool_calls |->
        [role |-> "tool", tool_call_id |-> tool_calls[Len(tool_calls) + 1 - i].id,
         content |-> json_dumps(ToolPayload(tool_invocations[i]))]]

\* One tool turn for each tool call, with the payload of the entry at its
\* position.
ToolTurns(tool_calls, tool_invocations) ==
    [i \in DOMAIN tool_calls |->
        [role |-> "tool", tool_call_id |-> tool_calls[i].id,
         content |-> json_dumps(ToolPayload(tool_invocations[i]))]]

messages_with_tools(history, tool_calls, tool_invocations) ==
    full_messages(history) \o <<ToolCallTurn(tool_calls)>>
        \o ToolTurns(tool_calls, tool_invocations)

\* chat.completions.create(messages=messages_with_tools, ...): no tools.
GroundRequest(r) ==
    [messages |-> messages_with_tools(rq[r].conversation_history, rq[r].tool_calls,
                                      rq[r].tool_invocations),
     tools |-> FALSE]

\* AgentService.chat: the first provider call raises.
PlanFails(r) ==
    /\ rq[r].pc = "plan"
    /\ rq' = [rq EXCEPT ![r].pc = "fallback", ![r].provider_calls = @ + 1,
                           ![r].provider_requests =
                               Append(@, PlanRequest(rq[r].conversation_history))]
    /\ DbUnchanged

\* An agent that makes the grounding request also when no tool was called.
PlanRepliesThenGrounds(r) ==
    /\ rq[r].pc = "plan"
    /\ \E content \in PlanContents :
          rq' = [rq EXCEPT ![r].pc = "ground", ![r].provider_calls = @ + 1,
                           ![r].provider_requests =
                               Append(@, PlanRequest(rq[r].conversation_history)),
                           ![r].response_text = content, ![r].tool_invocations = <<>>]
    /\ DbUnchanged

\* AgentService.chat: the first provider call returns no tool calls.
PlanReplies(r) ==
    /\ rq[r].pc = "plan"
    /\ \E content \in PlanContents :
          rq' = [rq EXCEPT ![r].pc = "asst_seq", ![r].provider_calls = @ + 1,
                           ![r].provider_requests =
                               Append(@, PlanRequest(rq[r].conversation_history)),
                           ![r].response_text = content, ![r].tool_invocations = <<>>]
    /\ DbUnchanged

\* AgentService.chat: the first provider call returns tool calls.
PlanToolCalls(r, P) ==
    /\ rq[r].pc = "plan"
    /\ \E p \in P :
          rq' = [rq EXCEPT ![r].pc = "tools", ![r].provider_calls = @ + 1,
                           ![r].provider_requests =
                               Append(@, PlanRequest(rq[r].conversation_history)),
                           ![r].tool_calls = p, ![r].tool_invocations = <<>>]
    /\ DbUnchanged

\* Where the tool loop goes after one more call: on to the next call, or to
\* the grounding request after the last one.
AfterTool(n_done, n_calls) == IF n_done = n_calls THEN "ground" ELSE "tools"

\* The tool call the loop is at.
NextToolCall(r) == rq[r].tool_calls[Len(rq[r].tool_invocations) + 1]

\* The task rows a query of request r reads: the session flushes its
\* uncommitted assignments before the query.
SessionTasks(r) ==
    {t \in tasks : \A d \in rq[r].dirty : d.id # t.id}
        \cup {d \in rq[r].dirty : \E t \in tasks : t.id = d.id}

\* The tool run of entry inv ended in db.commit(): create_task, update_task
\* and delete_task commit when they do not raise.
Commits(inv) ==
    inv.tool \in {"create_task", "update_task", "delete_task"} /\ IsNone(inv.error)

AnyCommits(invs) == \E i \in DOMAIN invs : Commits(invs[i])

\* The task table and the uncommitted rows after a tool run that left the
\* session with the rows `held`.
TasksAfter(committed, held) == IF committed THEN held ELSE tasks
DirtyAfter(committed, held) == IF committed THEN {} ELSE held \ tasks

\* tool_invocations.append({...}) with the result of _execute_tool.
RecordTool(r, inv, res) ==
    /\ tasks' = TasksAfter(Commits(inv), res.tasks)
    /\ task_seq' = res.task_seq
    /\ rq' = [rq EXCEPT ![r].pc = AfterTool(Len(rq[r].tool_invocations) + 1,
                                            Len(rq[r].tool_calls)),
                         ![r].tool_invocations = Append(@, inv),
                         ![r].executed = Append(@, inv),
                         ![r].dirty = DirtyAfter(Commits(inv), res.tasks)]

RunTool(r, tool_name, tool_args, res) ==
    RecordTool(r, Invocation(tool_name, WithUserId(tool_args, rq[r].user_id), res), res)

CallNextTool(r, tool_name, tool_args) ==
    RunTool(r, tool_name, tool_args,
            execute_tool(tool_name, tool_args, rq[r].user_id, SessionTasks(r), task_seq))

\* The loop body of AgentService.chat for the next tool call.
ExecTool(r) ==
    /\ rq[r].pc = "tools"
    /\ json_loads(NextToolCall(r).arguments).ok
    /\ CallNextTool(r, NextToolCall(r).name, json_loads(NextToolCall(r).arguments).value)
    /\ UNCHANGED <<now, conversations, messages, logs>>

\* json.loads raises on the next tool call's arguments: the except branch.
ToolArgsMalformed(r) ==
    /\ rq[r].pc = "tools"
    /\ ~json_loads(NextToolCall(r).arguments).ok
    /\ rq' = [rq EXCEPT ![r].pc = "fallback"]
    /\ DbUnchanged

\* The second provider call returns the final message.
GroundReplies(r) ==
    /\ rq[r].pc = "ground"
    /\ \E content \in GroundContents :
          rq' = [rq EXCEPT ![r].pc = "asst_seq", ![r].provider_calls = @ + 1,
                           ![r].provider_requests = Append(@, GroundRequest(r)),
                           ![r].response_text = content]
    /\ DbUnchanged

\* An agent without the except branch: the provider's error leaves chat().
GroundFailsPropagates(r) ==
    /\ rq[r].pc = "ground"
    /\ rq' = [rq EXCEPT ![r].pc = "agent_error", ![r].provider_calls = @ + 1,
                           ![r].provider_requests = Append(@, GroundRequest(r))]
    /\ DbUnchanged

\* An agent that sends the grounding request again when it raised.
GroundFailsRetries(r) ==
    /\ rq[r].pc = "ground"
    /\ rq' = [rq EXCEPT ![r].pc = "ground", ![r].provider_calls = @ + 1,
                           ![r].provider_requests = Append(@, GroundRequest(r))]
    /\ DbUnchanged

\* The second provider call raises.
GroundFails(r) ==
    /\ rq[r].pc = "ground"
    /\ rq' = [rq EXCEPT ![r].pc = "fallback", ![r].provider_calls = @ + 1,
                           ![r].provider_requests = Append(@, GroundRequest(r))]
    /\ DbUnchanged

\* An except branch that reads the first turn of the history.
FirstContent(r) == rq[r].conversation_history[1].content

\* messages[-1]['content']
LastContent(r) == rq[r].conversation_history[Len(rq[r].conversation_history)].content

\* return response_text, tool_invocations of the except branch.
ReturnFallback(r, fb) ==
    /\ tasks' = TasksAfter(AnyCommits(fb.tool_invocations), fb.tasks)
    /\ task_seq' = fb.task_seq
    /\ rq' = [rq EXCEPT ![r].pc = "asst_seq", ![r].fell_back = TRUE,
                         ![r].dirty = DirtyAfter(AnyCommits(fb.tool_invocations), fb.tasks),
                         ![r].response_text = Some(fb.response_text),
                         ![r].tool_invocations = fb.tool_invocations,
                         ![r].executed = @ \o fb.tool_invocations]

\* The except branch of AgentService.chat.
RunFallback(r) ==
    /\ rq[r].pc = "fallback"
    /\ ReturnFallback(r, Fallback(LastContent(r), rq[r].user_id, SessionTasks(r), task_seq))
    /\ UNCHANGED <<now, conversations, messages, logs>>

\* add_message(role="assistant"): the SELECT max(sequence_number).
AssistantSeq(r) ==
    /\ rq[r].pc = "asst_seq"
    /\ rq' = [rq EXCEPT ![r].pc = "asst_commit", ![r].read_from = now,
                         ![r].next_seq = NextSeq(MaxSequenceNumber(rq[r].conversation_id))]
    /\ DbUnchanged

\* add_message(role="assistant"): the commit, with the time read since the
\* SELECT as the conversation's updated_at; it also writes the rows the
\* session holds uncommitted.
AssistantCommit(r) ==
    /\ rq[r].pc = "asst_commit"
    /\ ~IsNone(rq[r].response_text)
    /\ messages' = Append(messages,
                          MessageRow(rq[r].conversation_id, "assistant",
                                     rq[r].response_text[1], rq[r].next_seq,
                                     rq[r].tool_invocations, r))
    /\ tasks' = SessionTasks(r)
    /\ \E t \in rq[r].read_from..now : conversations' = Touched(rq[r].conversation_id, t)
    /\ rq' = [rq EXCEPT ![r].pc = "log", ![r].assistant_message_id = Len(messages) + 1,
                         ![r].log_i = 0, ![r].dirty = {}, ![r].read_from = 0]
    /\ UNCHANGED <<now, logs, task_seq>>

\* add_message(role="assistant") with content None: message.content is NOT
\* NULL, the commit raises, add_message rolls the session back and the
\* handler answers 500.
AssistantCommitFails(r) ==
    /\ rq[r].pc = "asst_commit"
    /\ IsNone(rq[r].response_text)
    /\ rq' = [rq EXCEPT ![r].pc = "internal_error", ![r].dirty = {}, ![r].read_from = 0]
    /\ DbUnchanged

\* A log_tool_invocation that keeps only the latest audit record.
LogToolInvocationKeepsLatest(r) ==
    /\ rq[r].pc = "log"
    /\ rq[r].log_i < Len(rq[r].tool_invocations)
    /\ logs' = <<LogRow(rq[r].user_id, rq[r].tool_invocations[rq[r].log_i + 1],
                        rq[r].assistant_message_id)>>
    /\ rq' = [rq EXCEPT ![r].log_i = @ + 1]
    /\ UNCHANGED <<now, conversations, messages, tasks, task_seq>>

\* A loop that writes the audit records from the last entry to the first.
LogToolInvocationReversed(r) ==
    /\ rq[r].pc = "log"
    /\ rq[r].log_i < Len(rq[r].tool_invocations)
    /\ logs' = Append(logs, LogRow(rq[r].user_id,
                                   rq[r].tool_invocations[Len(rq[r].tool_invocations)
                                                          - rq[r].log_i],
                                   rq[r].assistant_message_id))
    /\ rq' = [rq EXCEPT ![r].log_i = @ + 1]
    /\ UNCHANGED <<now, conversations, messages, tasks, task_seq>>

\* One round of `for tool_inv in tool_invocations: log_tool_invocation(...)`.
LogToolInvocation(r) ==
    /\ rq[r].pc = "log"
    /\ rq[r].log_i < Len(rq[r].tool_invocations)
    /\ logs' = Append(logs, LogRow(rq[r].user_id, rq[r].tool_invocations[rq[r].log_i + 1],
                                   rq[r].assistant_message_id))
    /\ rq' = [rq EXCEPT ![r].log_i = @ + 1]
    /\ UNCHANGED <<now, conversations, messages, tasks, task_seq>>

\* return ChatResponse(...): the history and the loop counters go away.
Respond(r) ==
    /\ rq[r].pc = "log"
    /\ rq[r].log_i = Len(rq[r].tool_invocations)
    /\ rq' = [rq EXCEPT ![r].pc = "done", ![r].conversation_history = <<>>,
                         ![r].provider_requests = <<>>,
                         ![r].next_seq = 0, ![r].log_i = 0]
    /\ DbUnchanged

\* A request arrives: the handler resolves its conversation.
Arrive(r, M) ==
    \/ CreateConversation(r, M)
    \/ ConversationNotFound(r, M)
    \/ LoadConversation(r, M)

\* An accepted request runs on; P is what the provider may plan.
Proceed(r, P) ==
    \/ UserSeq(r)
    \/ UserCommit(r)
    \/ PlanFails(r)
    \/ PlanReplies(r)
    \/ PlanToolCalls(r, P)
    \/ ExecTool(r)
    \/ ToolArgsMalformed(r)
    \/ GroundReplies(r)
    \/ GroundFails(r)
    \/ RunFallback(r)
    \/ AssistantSeq(r)
    \/ AssistantCommit(r)
    \/ AssistantCommitFails(r)
    \/ LogToolInvocation(r)
    \/ Respond(r)

\* Concurrent chat requests; the provider plans one call at a time.
Next == \E r \in Requests : Arrive(r, SmallMessages) \/ Proceed(r, SmallPlans)

Spec == Init /\ [][Next]_vars

\* The handler has answered request r: 200, 404, or 500 with INTERNAL_ERROR
\* or AGENT_ERROR.
Answered(r) == rq[r].pc \in {"done", "not_found", "internal_error", "agent_error"}

\* One request, which opens a conversation or misses one, against tasks that
\* come in through the REST route; it sends any message and the provider
\* plans any list of calls.
NextTools ==
    \/ \E u \in Users : ApiCreateTask(u)
    \/ CreateConversation(1, Messages)
    \/ ConversationNotFound(1, Messages)
    \/ Proceed(1, Plans)

SpecTools == Init /\ [][NextTools]_vars

\* One request that greets or asks for its tasks, against tasks that come in
\* through the REST route; the provider plans one call that tries the tools'
\* argument checks.
NextArgs ==
    \/ \E u \in Users : ApiCreateTask(u)
    \/ CreateConversation(1, ArgMessages)
    \/ ConversationNotFound(1, ArgMessages)
    \/ Proceed(1, ArgPlans)

SpecArgs == Init /\ [][NextArgs]_vars

\* One request while the provider is unavailable, against tasks that come in
\* through the REST route.
NextFallback ==
    \/ \E u \in Users : ApiCreateTask(u)
    \/ CreateConversation(1, FallbackMessages)
    \/ UserSeq(1)
    \/ UserCommit(1)
    \/ PlanFails(1)
    \/ RunFallback(1)
    \/ AssistantSeq(1)
    \/ AssistantCommit(1)
    \/ LogToolInvocation(1)
    \/ Respond(1)

SpecFallback == Init /\ [][NextFallback]_vars

\* Concurrent requests whose planning call replies at once, while time
\* passes.
NextClock ==
    \/ Tick
    \/ \E r \in Requests :
          \/ Arrive(r, {"hi"})
          \/ UserSeq(r)
          \/ UserCommit(r)
          \/ PlanReplies(r)
          \/ AssistantSeq(r)
          \/ AssistantCommit(r)
          \/ AssistantCommitFails(r)
          \/ Respond(r)

SpecClock == Init /\ [][NextClock]_vars

\* ================================================================ claims
\* The handler has accepted request r: its conversation resolved.
Accepted(r) == rq[r].pc \notin {"start", "not_found"}

\* No other request is under way.
Alone(r) == \A r2 \in Requests \ {r} : rq[r2].pc = "start" \/ Answered(r2)

\* The messages request r appended to conversation c in the given role.
AppendedBy(r, c, role) ==
    {k \in DOMAIN messages :
        messages[k].by = r /\ messages[k].conversation_id = c /\ messages[k].role = role}

\* The conversation of id c is missing or belongs to another user than u.
Foreign(c, u) == c \notin DOMAIN conversations \/ conversations[c].user_id # u

\* The ids of the tasks a tool output shows.
OutputTaskIds(inv) ==
    IF IsNone(inv.outputs) THEN {}
    ELSE IF "tasks" \in DOMAIN inv.outputs[1] THEN {d.task_id : d \in inv.outputs[1].tasks}
    ELSE IF "task_id" \in DOMAIN inv.outputs[1] THEN {inv.outputs[1].task_id}
    ELSE {inv.outputs[1].deleted_task_id}

\* C1: in every conversation, in every reachable state of concurrent chat
\* requests, each of the numbers 0..n-1 is the sequence number of exactly one
\* of its n messages.
C1_SequenceNumbersContiguous ==
    \A c \in DOMAIN conversations :
        \A s \in 0..(Cardinality(MessagesOf(c)) - 1) :
            Cardinality({k \in MessagesOf(c) : messages[k].sequence_number = s}) = 1

\* C2: while no other request is under way, a message appended to a
\* conversation gets sequence number 0 if the conversation had no message and
\* 1 + the largest sequence number of the conversation otherwise.
C2_NextSequenceNumber ==
    [][\A k \in DOMAIN messages' \ DOMAIN messages :
          Alone(messages'[k].by) =>
              messages'[k].sequence_number =
                  IF MessagesOf(messages'[k].conversation_id) = {} THEN 0
                  ELSE 1 + Largest({messages[j].sequence_number :
                                      j \in MessagesOf(messages'[k].conversation_id)})[1]]_vars

\* C3: a step of a chat request of user A leaves every task of the other
\* users as it was (none created, updated or deleted), and every tool output
\* it obtains shows only tasks of A.
C3_TenantIsolation ==
    [][\A r \in Requests :
          rq'[r] # rq[r] =>
              /\ {t \in tasks' : t.user_id # rq'[r].user_id}
                    = {t \in tasks : t.user_id # rq'[r].user_id}
              /\ \A i \in DOMAIN rq'[r].executed \ DOMAIN rq[r].executed :
                    OutputTaskIds(rq'[r].executed[i]) \subseteq
                        {t.id : t \in {x \in tasks \cup tasks' :
                                          x.user_id = rq'[r].user_id}}]_vars

\* A request asked to update or delete task 1, which belongs to another user,
\* and the tool refused.
C3_Witness ==
    \E r \in Requests : \E i \in DOMAIN rq[r].executed :
        /\ rq[r].executed[i].tool \in {"update_task", "delete_task"}
        /\ ~IsNone(rq[r].executed[i].error)
        /\ \E t \in tasks : t.id = 1 /\ t.user_id # rq[r].user_id

\* C4: a request that names a conversation which does not exist or belongs
\* to another user ends with NotFound; it holds no message of that
\* conversation, has no reply and the provider was not called for it.
C4_ForeignConversationNotFound ==
    \A r \in Requests :
        (/\ rq[r].pc # "start"
         /\ ~IsNone(rq[r].request_conversation_id)
         /\ Foreign(rq[r].request_conversation_id[1], rq[r].user_id))
        => /\ rq[r].pc = "not_found"
           /\ rq[r].conversation_history = <<>>
           /\ IsNone(rq[r].response_text)
           /\ rq[r].provider_calls = 0

\* A request was refused a conversation of another user that has messages.
C4_Witness ==
    \E r \in Requests :
        /\ rq[r].pc = "not_found"
        /\ rq[r].request_conversation_id[1] \in DOMAIN conversations
        /\ conversations[rq[r].request_conversation_id[1]].user_id # rq[r].user_id
        /\ MessagesOf(rq[r].request_conversation_id[1]) # {}

\* C5: the step in which a request's conversation fails to resolve changes
\* no table (no conversation, message, task or audit record) and calls no
\* provider, and the request takes no step after it.
C5_NotFoundChangesNothing ==
    [][\A r \in Requests :
          /\ (/\ rq[r].pc = "start" /\ rq'[r].pc # "start"
              /\ ~IsNone(rq'[r].request_conversation_id)
              /\ Foreign(rq'[r].request_conversation_id[1], rq'[r].user_id))
             => /\ UNCHANGED <<conversations, messages, logs, tasks, task_seq>>
                /\ rq'[r].pc = "not_found"
                /\ rq'[r].provider_calls = 0
          /\ rq[r].pc = "not_found" => rq'[r] = rq[r]]_vars

\* A request ended with NotFound while the tables hold another request's
\* conversation and message.
C5_Witness ==
    \E r \in Requests :
        /\ rq[r].pc = "not_found"
        /\ messages # <<>>
        /\ \A k \in DOMAIN messages : messages[k].by # r

\* C6: an audit record is a success exactly if it has no error text and has
\* outputs, and a failure exactly if it has an error text and no outputs.
C6_SuccessIffOutputsAndNoError ==
    \A k \in DOMAIN logs :
        /\ logs[k].success <=> (IsNone(logs[k].error_message) /\ ~IsNone(logs[k].outputs))
        /\ ~logs[k].success <=> (~IsNone(logs[k].error_message) /\ IsNone(logs[k].outputs))

\* The audit log holds a success and a failure.
C6_Witness ==
    \E k1, k2 \in DOMAIN logs : logs[k1].success /\ ~logs[k2].success

\* C7: when a request is answered, the tool runs performed for it are the
\* entries of the tool invocations returned, one each, and there is one audit
\* record of its assistant message for each.
C7_EveryExecutionReported ==
    \A r \in Requests :
        rq[r].pc = "done" =>
            /\ rq[r].tool_invocations = rq[r].executed
            /\ Cardinality({k \in DOMAIN logs :
                               logs[k].message_id = rq[r].assistant_message_id})
                  = Len(rq[r].executed)

\* C8: when a request whose planning response asked for k tool calls is
\* answered, the first k tool runs were those calls in their order and the
\* tool invocations returned are k entries in the same order.
C8_AllCallsInOrder ==
    \A r \in Requests :
        (rq[r].pc = "done" /\ rq[r].tool_calls # <<>>) =>
            /\ Len(rq[r].tool_invocations) = Len(rq[r].tool_calls)
            /\ Len(rq[r].executed) >= Len(rq[r].tool_calls)
            /\ \A i \in DOMAIN rq[r].tool_calls :
                  /\ rq[r].tool_invocations[i].tool = rq[r].tool_calls[i].name
                  /\ rq[r].executed[i].tool = rq[r].tool_calls[i].name

\* C9: a provider call that yields no response takes the agent to its
\* fallback; the fallback hands the reply and tool invocations it computed
\* from the request's message back to the handler; and from the fallback on
\* the request makes no provider call.
C9_ProviderFailureFallsBack ==
    [][\A r \in Requests :
          /\ (rq'[r].provider_calls > rq[r].provider_calls
              /\ rq'[r].pc \notin {"asst_seq", "tools"})
             => rq'[r].pc = "fallback"
          /\ (rq[r].pc = "fallback" /\ rq'[r] # rq[r])
             => /\ rq'[r].pc = "asst_seq"
                /\ rq'[r].fell_back
                /\ rq'[r].response_text =
                      Some(Fallback(rq[r].message, rq[r].user_id, tasks, task_seq).response_text)
                /\ rq'[r].tool_invocations =
                      Fallback(rq[r].message, rq[r].user_id, tasks, task_seq).tool_invocations
          /\ (rq[r].pc = "fallback" \/ rq[r].fell_back)
             => rq'[r].provider_calls = rq[r].provider_calls]_vars

\* A request whose grounding call failed was answered from the fallback.
C9_Witness ==
    \E r \in Requests :
        rq[r].pc = "done" /\ rq[r].fell_back /\ rq[r].provider_calls = 2

\* C10: a request whose conversation resolved does not end in an error, and
\* when it is answered it has appended exactly one user message and exactly
\* one assistant message to its conversation.
C10_AcceptedRequestReachesDone ==
    \A r \in Requests :
        Accepted(r) =>
            /\ rq[r].pc \notin {"internal_error", "agent_error"}
            /\ rq[r].pc = "done" =>
                  /\ Cardinality(AppendedBy(r, rq[r].conversation_id, "user")) = 1
                  /\ Cardinality(AppendedBy(r, rq[r].conversation_id, "assistant")) = 1

\* The words of an update intent or of a delete intent stand in message m and
\* none of the words of a greeting, of a create intent or of a list intent.
UpdateOrDeleteIntent(m) ==
    /\ AnyIn({"update", "complete", "done", "finish", "delete", "remove"}, Lower(m))
    /\ ~AnyIn({"hello", "hi", "hey", "create", "add", "make", "new",
               "show", "list", "view", "see", "my tasks"}, Lower(m))

\* C11: the fallback step of a request whose message has an update or delete
\* intent returns no tool invocation, runs no tool, leaves the task table as
\* it was and replies by asking which task is meant.
C11_UpdateDeleteIntentDeferred ==
    [][\A r \in Requests :
          (rq[r].pc = "fallback" /\ rq'[r] # rq[r] /\ UpdateOrDeleteIntent(rq[r].message))
          => /\ rq'[r].tool_invocations = <<>>
             /\ rq'[r].executed = rq[r].executed
             /\ tasks' = tasks /\ task_seq' = task_seq
             /\ rq'[r].response_text \in
                   {Some("I can help you update tasks. Please specify which task you'd like to update and what changes to make."),
                    Some("I can help you delete tasks. Please specify which task you'd like to delete.")}]_vars

\* A request with a delete intent was answered from the fallback while its
\* user has a task.
C11_Witness ==
    \E r \in Requests :
        /\ rq[r].pc = "done" /\ rq[r].fell_back /\ rq[r].message = "remove it"
        /\ \E t \in tasks : t.user_id = rq[r].user_id

\* The entries of a sequence.
Entries(q) == {q[i] : i \in DOMAIN q}

\* C12: when the planning call of a request failed (it raised, or its
\* response was malformed, so that the fallback ran after one provider call),
\* the only tool runs of the request are the fallback's, at most one, and they
\* are the tool invocations returned; and no returned entry and no audit
\* record of any request is of a tool call that was not run.
C12_FailedPlanningRunsNoRequestedTool ==
    \A r \in Requests :
        /\ (rq[r].fell_back /\ rq[r].provider_calls = 1)
           => /\ rq[r].executed = rq[r].tool_invocations
              /\ Len(rq[r].tool_invocations) <= 1
        /\ Entries(rq[r].tool_invocations) \subseteq Entries(rq[r].executed)
        /\ \A k \in DOMAIN logs :
              logs[k].message_id = rq[r].assistant_message_id /\ rq[r].assistant_message_id # 0
              => \E e \in Entries(rq[r].executed) :
                    logs[k].tool_name = e.tool /\ logs[k].inputs = e.inputs

\* C13: a tool run on the LLM path is recorded with the provider's arguments
\* and user_id set to the calling user; the tasks it adds belong to the
\* calling user; and when the arguments name another user, the run fails and
\* changes no task.
C13_UserIdInjected ==
    [][\A r \in Requests :
          \A i \in DOMAIN rq'[r].executed \ DOMAIN rq[r].executed :
              ~rq'[r].fell_back =>
                 /\ DOMAIN rq'[r].executed[i].inputs
                       = DOMAIN rq[r].tool_calls[i].arguments.object \cup {"user_id"}
                 /\ rq'[r].executed[i].inputs.user_id = rq[r].user_id
                 /\ \A k \in DOMAIN rq[r].tool_calls[i].arguments.object \ {"user_id"} :
                       rq'[r].executed[i].inputs[k] = rq[r].tool_calls[i].arguments.object[k]
                 /\ \A t \in tasks' \ tasks : t.user_id = rq[r].user_id
                 /\ ("user_id" \in DOMAIN rq[r].tool_calls[i].arguments.object
                       /\ rq[r].tool_calls[i].arguments.object.user_id # rq[r].user_id)
                    => (tasks' = tasks /\ ~IsNone(rq'[r].executed[i].error))]_vars

\* The provider asked for a tool with the user_id of another user and the
\* run was recorded.
C13_Witness ==
    \E r \in Requests : \E i \in DOMAIN rq[r].executed :
        /\ ~rq[r].fell_back
        /\ i \in DOMAIN rq[r].tool_calls
        /\ "user_id" \in DOMAIN rq[r].tool_calls[i].arguments.object
        /\ rq[r].tool_calls[i].arguments.object.user_id # rq[r].user_id
        /\ rq[r].executed[i].inputs.user_id = rq[r].user_id

\* C14: the tool name of every audit record and of every entry of the tool
\* invocations a request returns is one of create_task, list_tasks,
\* update_task, delete_task.
C14_ToolNamesInRegistry ==
    /\ \A k \in DOMAIN logs :
          logs[k].tool_name \in {"create_task", "list_tasks", "update_task", "delete_task"}
    /\ \A r \in Requests :
          rq[r].pc = "done" =>
              \A i \in DOMAIN rq[r].tool_invocations :
                  rq[r].tool_invocations[i].tool
                      \in {"create_task", "list_tasks", "update_task", "delete_task"}

\* A title or description the task fields do not admit.
BadTitle(title) == title = "" \/ Strip(title) = "" \/ Len(title) > TitleMaxLen
BadDescription(description) == ~IsNone(description) /\ Len(description[1]) > DescriptionMaxLen

\* C15: no stored task has a title that is empty, blank or longer than 500
\* characters or a description longer than 5000 characters, and every run of
\* create_task or update_task with such a title or description has an error.
C15_StoredTitlesValid ==
    /\ \A t \in tasks : ~BadTitle(t.title) /\ ~BadDescription(t.description)
    /\ \A r \in Requests : \A i \in DOMAIN rq[r].executed :
          (/\ rq[r].executed[i].tool \in {"create_task", "update_task"}
           /\ \/ ("title" \in DOMAIN rq[r].executed[i].inputs
                    /\ BadTitle(rq[r].executed[i].inputs.title))
              \/ ("description" \in DOMAIN rq[r].executed[i].inputs
                    /\ Len(rq[r].executed[i].inputs.description) > DescriptionMaxLen))
          => ~IsNone(rq[r].executed[i].error)

\* The rows of conversation c in the order they were appended.
AppendOrder(c) ==
    CHOOSE f \in [1..Cardinality(MessagesOf(c)) -> MessagesOf(c)] :
        \A i, j \in DOMAIN f : i < j => f[i] < f[j]

\* The last m rows of conversation c, oldest first, in the provider's format.
MostRecent(c, m) ==
    [i \in 1..m |->
        [role |-> messages[AppendOrder(c)[Cardinality(MessagesOf(c)) - m + i]].role,
         content |-> messages[AppendOrder(c)[Cardinality(MessagesOf(c)) - m + i]].content]]

\* The rows of conversation c were appended one after another by one request.
AppendedByOne(c) == \E r \in Requests : \A k \in MessagesOf(c) : messages[k].by = r

Limits == {1, 2, HistoryLimit}

\* C16: for a conversation of n messages appended one after another and a
\* limit L >= 1, load_conversation_messages returns exactly the min(n, L)
\* most recently appended messages, oldest of them first.
C16_HistoryIsMostRecentInOrder ==
    \A c \in DOMAIN conversations : \A L \in Limits :
        AppendedByOne(c) =>
            Histories(c, L) =
                {MostRecent(c, IF Cardinality(MessagesOf(c)) < L
                               THEN Cardinality(MessagesOf(c)) ELSE L)}

\* Request r said "hi" without a conversation id, its planning call raised,
\* and it has been answered.
GreetedWhileUnavailable(r) ==
    /\ rq[r].pc = "done" /\ rq[r].message = "hi" /\ IsNone(rq[r].request_conversation_id)
    /\ rq[r].fell_back /\ rq[r].provider_calls = 1 /\ rq[r].tool_calls = <<>>

\* C17: "hi" without a conversation id while the provider is unavailable is
\* answered with the fixed greeting and no tool invocation, creates one
\* conversation owned by the caller, and appends to it the user message with
\* sequence number 0 and the assistant message with sequence number 1.
C17_GreetingScenario ==
    \A r \in Requests :
        GreetedWhileUnavailable(r) /\ Alone(r) /\ Len(conversations) = 1 =>
            /\ rq[r].response_text = Some("Hello! I'm your AI task assistant. You can ask me to create, list, update, or delete tasks.")
            /\ rq[r].tool_invocations = <<>>
            /\ rq[r].conversation_id = 1
            /\ conversations[1].user_id = rq[r].user_id
            /\ {messages[k].sequence_number : k \in AppendedBy(r, 1, "user")} = {0}
            /\ {messages[k].sequence_number : k \in AppendedBy(r, 1, "assistant")} = {1}
            /\ Cardinality(MessagesOf(1)) = 2

\* Entry e of a tool run is of update_task or delete_task with a task id.
OnTaskId(e) == e.tool \in {"update_task", "delete_task"} /\ "task_id" \in DOMAIN e.inputs

\* Request r has just run update_task or delete_task on a task id that names
\* no task of its user.
RanOnMissingTask(r) ==
    /\ Len(rq'[r].executed) = Len(rq[r].executed) + 1
    /\ OnTaskId(rq'[r].executed[Len(rq'[r].executed)])
    /\ ~\E t \in tasks : /\ t.id = rq'[r].executed[Len(rq'[r].executed)].inputs.task_id
                         /\ t.user_id = rq[r].user_id

\* Entry e is of a run that did not find its task.
TaskNotFound(e) ==
    OnTaskId(e) /\ e.error = Some("Task " \o ToString(e.inputs.task_id)
                                     \o " not found or does not belong to user")

\* The audit log holds the failure e for the assistant message of request r.
AuditedFailure(r, e) ==
    \E k \in DOMAIN logs :
        /\ logs[k].message_id = rq[r].assistant_message_id /\ logs[k].tool_name = e.tool
        /\ ~logs[k].success /\ logs[k].error_message = e.error /\ IsNone(logs[k].outputs)

\* An answered request one of whose tool runs did not find its task has got
\* a reply after the grounding call, with the failure returned and audited.
MissingTaskAnswered(r) ==
    \A i \in DOMAIN rq[r].executed :
        (Answered(r) /\ TaskNotFound(rq[r].executed[i])) =>
            /\ rq[r].pc = "done" /\ ~IsNone(rq[r].response_text)
            /\ rq[r].provider_calls = 2
            /\ rq[r].executed[i] \in Entries(rq[r].tool_invocations)
            /\ AuditedFailure(r, rq[r].executed[i])

\* C18: a run of update_task or delete_task on a task id that does not exist
\* or is not the caller's changes no task and yields an entry with an error
\* and no outputs; the request then makes the grounding call and is answered
\* with a reply, the entry among its tool invocations and audited as failed.
C18_MissingTaskFailsAndCompletes ==
    [][\A r \in Requests :
          /\ RanOnMissingTask(r) =>
                /\ tasks' = tasks
                /\ ~IsNone(rq'[r].executed[Len(rq'[r].executed)].error)
                /\ IsNone(rq'[r].executed[Len(rq'[r].executed)].outputs)
                /\ TaskNotFound(rq'[r].executed[Len(rq'[r].executed)])
          /\ MissingTaskAnswered(r)']_vars

\* Request r has just created conversation c.
Created(r, c) == rq[r].pc = "start" /\ rq'[r].pc = "user_seq" /\ rq'[r].conversation_id = c

\* C19: a conversation is owned by the user whose request created it; no step
\* changes the owner of a conversation and no step deletes a conversation.
C19_OwnerFixedAtCreation ==
    [][/\ \A c \in DOMAIN conversations :
             c \in DOMAIN conversations' /\ conversations'[c].user_id = conversations[c].user_id
       /\ \A c \in DOMAIN conversations' \ DOMAIN conversations :
             \E r \in Requests : Created(r, c) /\ conversations'[c].user_id = rq'[r].user_id
       /\ \A r \in Requests :
             (Accepted(r) /\ IsNone(rq[r].request_conversation_id)) =>
                 conversations'[rq[r].conversation_id].user_id = rq[r].user_id]_vars

\* A conversation created by one request has been continued by another
\* request, which was answered, and there is a second conversation.
C19_Witness ==
    \E r \in Requests :
        /\ rq[r].pc = "done" /\ ~IsNone(rq[r].request_conversation_id)
        /\ AppendedBy(r, rq[r].conversation_id, "assistant") # {}
        /\ \E r2 \in Requests \ {r} : rq[r2].conversation_id = rq[r].conversation_id

\* The planning response of request r held no tool call.
ZeroToolCalls(r) ==
    /\ rq[r].provider_calls >= 1 /\ rq[r].tool_calls = <<>>
    /\ rq[r].pc \notin {"plan", "fallback"} /\ ~rq[r].fell_back

\* C20: when the planning response holds no tool call, the agent returns the
\* provider's text with no tool invocation, the request calls the provider no
\* second time, runs no tool and changes no task, and the reply it is
\* answered with is that text.
C20_NoToolCallsRepliesVerbatim ==
    [][\A r \in Requests :
          ZeroToolCalls(r)' =>
              /\ rq'[r].provider_calls = 1
              /\ rq'[r].response_text \in PlanContents
              /\ rq'[r].tool_invocations = <<>> /\ rq'[r].executed = <<>>
              /\ rq'[r] # rq[r] => tasks' = tasks
              /\ ZeroToolCalls(r) => rq'[r].response_text = rq[r].response_text
              /\ rq'[r].pc = "done" =>
                    /\ rq'[r].response_text = Some(PlanText)
                    /\ \A k \in AppendedBy(r, rq[r].conversation_id, "assistant") :
                          messages'[k].content = PlanText
                    /\ \A k \in DOMAIN logs' : logs'[k].message_id # rq'[r].assistant_message_id]_vars

\* A request whose planning response held no tool call was answered while
\* its user has a task.
C20_Witness ==
    \E r \in Requests :
        /\ ZeroToolCalls(r) /\ rq[r].pc = "done"
        /\ \E t \in tasks : t.user_id = rq[r].user_id

\* Request r makes a provider call in this step.
CallsProvider(r) == rq'[r].provider_calls # rq[r].provider_calls

\* The names of the tools of a sequence of calls or of entries.
CallNames(tool_calls) == [i \in DOMAIN tool_calls |-> tool_calls[i].name]
EntryTools(entries) == [i \in DOMAIN entries |-> entries[i].tool]

\* C21: a request calls the provider at most twice and never again after a
\* call failed; the second call is made only when the first returned tool
\* calls and all of them have been run, it offers no tools, and after it the
\* only tool run left is the fallback's.
C21_AtMostTwoProviderCalls ==
    [][\A r \in Requests :
          /\ rq'[r].provider_calls \in {rq[r].provider_calls, rq[r].provider_calls + 1}
          /\ rq'[r].provider_calls <= 2
          /\ CallsProvider(r) =>
                /\ rq[r].pc \notin {"fallback"} /\ ~rq[r].fell_back
                /\ Len(rq'[r].provider_requests) = rq'[r].provider_calls
                /\ rq'[r].provider_requests[1].tools
          /\ (CallsProvider(r) /\ rq'[r].provider_calls = 2) =>
                /\ rq[r].tool_calls # <<>>
                /\ EntryTools(rq[r].executed) = CallNames(rq[r].tool_calls)
                /\ ~rq'[r].provider_requests[2].tools
          /\ (rq[r].provider_calls = 2 /\ rq'[r].executed # rq[r].executed) =>
                rq[r].pc = "fallback"]_vars

\* A request that ran two tool calls was answered after its second provider
\* call.
C21_Witness ==
    \E r \in Requests :
        /\ rq[r].pc = "done" /\ rq[r].provider_calls = 2 /\ ~rq[r].fell_back
        /\ Len(rq[r].tool_calls) = 2 /\ Len(rq[r].executed) = 2

\* The audit records written for the assistant message of request r.
AuditOf(r) ==
    {k \in DOMAIN logs : rq[r].assistant_message_id # 0
                            /\ logs[k].message_id = rq[r].assistant_message_id}

\* The stages of the handler in their order.
Stage(pc) ==
    CASE pc = "start" -> 0
      [] pc \in {"user_seq", "user_commit"} -> 1
      [] pc \in {"plan", "tools", "ground", "fallback"} -> 2
      [] pc \in {"asst_seq", "asst_commit"} -> 3
      [] pc = "log" -> 4
      [] OTHER -> 5

\* C22: a request goes through resolving its conversation, storing the user
\* message, extending the history, the agent, storing the assistant message,
\* the audit records and the answer in this order and through each once: the
\* user message is stored before any provider call or tool run, the assistant
\* message after every tool run, and audit records only once it is stored.
C22_StepsInOrder ==
    [][\A r \in Requests :
          /\ Stage(rq'[r].pc) >= Stage(rq[r].pc)
          /\ Cardinality(AppendedBy(r, rq[r].conversation_id, "user"))' <= 1
          /\ Cardinality(AppendedBy(r, rq[r].conversation_id, "assistant"))' <= 1
          /\ AppendedBy(r, rq[r].conversation_id, "user")'
                # AppendedBy(r, rq[r].conversation_id, "user")
                => Stage(rq[r].pc) = 1 /\ rq[r].conversation_id \in DOMAIN conversations
          /\ (CallsProvider(r) \/ rq'[r].executed # rq[r].executed) =>
                /\ Stage(rq[r].pc) = 2
                /\ Cardinality(AppendedBy(r, rq[r].conversation_id, "user")) = 1
                /\ AppendedBy(r, rq[r].conversation_id, "assistant") = {}
                /\ rq[r].conversation_history[Len(rq[r].conversation_history)]
                      = [role |-> "user", content |-> rq[r].message]
          /\ AppendedBy(r, rq[r].conversation_id, "assistant")'
                # AppendedBy(r, rq[r].conversation_id, "assistant")
                => Stage(rq[r].pc) = 3 /\ AuditOf(r) = {}
          /\ AuditOf(r)' # AuditOf(r) =>
                /\ Stage(rq[r].pc) = 4
                /\ rq[r].assistant_message_id
                      \in AppendedBy(r, rq[r].conversation_id, "assistant")
          /\ (rq'[r].pc = "done" /\ rq[r].pc # "done") =>
                /\ Cardinality(AppendedBy(r, rq[r].conversation_id, "assistant")) = 1
                /\ Cardinality(AuditOf(r)) = Len(rq[r].tool_invocations)]_vars

\* A request that continued a conversation and ran a tool was answered with
\* an audit record written.
C22_Witness ==
    \E r \in Requests :
        /\ rq[r].pc = "done" /\ ~IsNone(rq[r].request_conversation_id)
        /\ rq[r].executed # <<>> /\ AuditOf(r) # {}

\* A word of `words` is present in the lower-cased message m.
Present(words, m) == \E w \in words : Contains(Lower(m), w)
GreetingIn(m) == Present({"hello", "hi", "hey"}, m)
CreateIn(m) == Present({"create", "add", "make", "new"}, m)
ListIn(m) == Present({"show", "list", "view", "see", "my tasks"}, m)
UpdateWordIn(m) == Present({"update", "complete", "done", "finish"}, m)
DeleteWordIn(m) == Present({"delete", "remove"}, m)

\* The except branch of request r runs in this step.
FallsBack(r) == rq[r].pc = "fallback" /\ rq'[r].pc # "fallback"

\* The step of request r runs no tool and returns the reply `text`.
RepliesWithoutTool(r, text) ==
    /\ rq'[r].response_text = Some(text) /\ rq'[r].tool_invocations = <<>>
    /\ rq'[r].executed = rq[r].executed /\ tasks' = tasks

\* The step of request r runs the tool `tool` once and returns its entry.
RunsOnce(r, tool) ==
    /\ Len(rq'[r].executed) = Len(rq[r].executed) + 1
    /\ rq'[r].executed[Len(rq'[r].executed)].tool = tool
    /\ rq'[r].tool_invocations = <<rq'[r].executed[Len(rq'[r].executed)]>>

\* C23: the fallback tests greeting, create, list, update and delete words in
\* this order on the latest user message and takes the first present: a
\* greeting word gives the greeting without a tool call whatever else is
\* present, a create word without a greeting word runs create_task whatever
\* else is present, and a message with none gets the generic reply without a
\* tool call.
C23_FallbackPrecedence ==
    [][\A r \in Requests : FallsBack(r) =>
          IF GreetingIn(rq[r].message)
          THEN RepliesWithoutTool(r, "Hello! I'm your AI task assistant. You can ask me to create, list, update, or delete tasks.")
          ELSE IF CreateIn(rq[r].message) THEN RunsOnce(r, "create_task")
          ELSE IF ListIn(rq[r].message) THEN RunsOnce(r, "list_tasks")
          ELSE IF UpdateWordIn(rq[r].message)
          THEN RepliesWithoutTool(r, "I can help you update tasks. Please specify which task you'd like to update and what changes to make.")
          ELSE IF DeleteWordIn(rq[r].message)
          THEN RepliesWithoutTool(r, "I can help you delete tasks. Please specify which task you'd like to delete.")
          ELSE RepliesWithoutTool(r, "I received your message: '" \o rq[r].message
                                       \o "' and I'm ready to help you manage your tasks.")]_vars

\* The fallback has answered a message with a greeting word and a create
\* word, while its user has a task.
C23_Witness ==
    \E r \in Requests :
        /\ rq[r].pc = "done" /\ rq[r].fell_back
        /\ GreetingIn(rq[r].message) /\ CreateIn(rq[r].message)
        /\ \E t \in tasks : t.user_id = rq[r].user_id

\* The entry of the tool run of this step of request r.
NewEntry(r) == rq'[r].executed[Len(rq'[r].executed)]

\* The ids of the task rows T.
TaskIds(T) == {t.id : t \in T}

\* Entry e reports the creation of task t for user u.
ReportsCreated(e, t, u) ==
    /\ IsNone(e.error) /\ ~IsNone(e.outputs)
    /\ e.outputs[1].task_id = t.id /\ e.outputs[1].title = e.inputs.title
    /\ t.title = e.inputs.title /\ t.user_id = u
    /\ IsNone(t.description) /\ ~t.completed

\* C24: the fallback with a create intent runs create_task once, with a title
\* that is not empty (the placeholder when the extraction leaves nothing) and
\* without a description; it returns that one entry, with outputs and no
\* error when the task was created and with an error and no outputs when not,
\* and at most one task, of the caller, is added.
C24_FallbackCreatesOnce ==
    [][\A r \in Requests :
          (FallsBack(r) /\ ~GreetingIn(rq[r].message) /\ CreateIn(rq[r].message)) =>
              /\ RunsOnce(r, "create_task")
              /\ DOMAIN NewEntry(r).inputs = {"title", "user_id"}
              /\ NewEntry(r).inputs.user_id = rq[r].user_id
              /\ NewEntry(r).inputs.title # "" /\ Strip(NewEntry(r).inputs.title) # ""
              /\ rq[r].message = "add please" => NewEntry(r).inputs.title = "sample task"
              /\ rq[r].message = "Create a task to buy milk" =>
                    /\ NewEntry(r).inputs.title = "buy milk"
                    /\ IsNone(NewEntry(r).error)
                    /\ rq'[r].response_text = Some("I've created a task 'buy milk' for you.")
              /\ \/ /\ TaskIds(tasks') = TaskIds(tasks)
                    /\ ~IsNone(NewEntry(r).error) /\ IsNone(NewEntry(r).outputs)
                 \/ \E t \in tasks' :
                       /\ t.id \notin TaskIds(tasks)
                       /\ TaskIds(tasks') = TaskIds(tasks) \cup {t.id}
                       /\ ReportsCreated(NewEntry(r), t, rq[r].user_id)]_vars

\* The fallback has created the placeholder task for a message whose title
\* the extraction left empty.
C24_Witness ==
    \E r \in Requests :
        /\ rq[r].pc = "done" /\ rq[r].fell_back /\ rq[r].message = "add please"
        /\ \E t \in tasks : t.title = "sample task" /\ t.user_id = rq[r].user_id

\* What a listing shows of task row t.
Shown(t) ==
    [task_id |-> t.id, title |-> t.title, description |-> t.description,
     completed |-> t.completed]

\* C25: the fallback with a list intent runs list_tasks once, without a
\* completion filter; the one entry it returns shows exactly the tasks of the
\* caller, completed or not, and no task changes.
C25_FallbackListsOwnTasks ==
    [][\A r \in Requests :
          (/\ FallsBack(r) /\ ~GreetingIn(rq[r].message) /\ ~CreateIn(rq[r].message)
           /\ ListIn(rq[r].message)) =>
              /\ RunsOnce(r, "list_tasks")
              /\ NewEntry(r).inputs = [user_id |-> rq[r].user_id]
              /\ IsNone(NewEntry(r).error) /\ ~IsNone(NewEntry(r).outputs)
              /\ NewEntry(r).outputs[1].tasks
                    = {Shown(t) : t \in {x \in tasks : x.user_id = rq[r].user_id}}
              /\ NewEntry(r).outputs[1].total_count
                    = Cardinality({x \in tasks : x.user_id = rq[r].user_id})
              /\ tasks' = tasks]_vars

\* Request r sends the grounding request in this step.
Grounds(r) == CallsProvider(r) /\ rq'[r].provider_calls = 2

\* The planning and the grounding request of request r after the step.
Planning(r) == rq'[r].provider_requests[1].messages
Grounding(r) == rq'[r].provider_requests[2].messages

\* What the tool turn of the run with entry e carries.
ResultOf(e) == IF ~IsNone(e.outputs) THEN e.outputs[1] ELSE [error |-> e.error]

\* Turn t repeats the tool calls `calls` in their order.
RepeatsCalls(t, calls) ==
    /\ t.role = "assistant" /\ Len(t.tool_calls) = Len(calls)
    /\ \A i \in DOMAIN calls :
          /\ t.tool_calls[i].id = calls[i].id
          /\ t.tool_calls[i].function.name = calls[i].name
          /\ t.tool_calls[i].function.arguments = calls[i].arguments

\* C26: the grounding request is the planning request's messages (system
\* prompt and history up to the new user message), then the assistant turn
\* with the tool calls asked for, then one tool turn for each of these calls
\* in their order, with the id of its call and the output of its run or, when
\* the run failed, the error.
C26_GroundingRequest ==
    [][\A r \in Requests : Grounds(r) =>
          /\ Planning(r)[1].role = "system"
          /\ Planning(r)[Len(Planning(r))] = [role |-> "user", content |-> rq[r].message]
          /\ Len(Grounding(r)) = Len(Planning(r)) + 1 + Len(rq[r].tool_calls)
          /\ SubSeq(Grounding(r), 1, Len(Planning(r))) = Planning(r)
          /\ RepeatsCalls(Grounding(r)[Len(Planning(r)) + 1], rq[r].tool_calls)
          /\ Len(rq[r].executed) = Len(rq[r].tool_calls)
          /\ \A i \in DOMAIN rq[r].tool_calls :
                /\ rq[r].executed[i].tool = rq[r].tool_calls[i].name
                /\ Grounding(r)[Len(Planning(r)) + 1 + i].role = "tool"
                /\ Grounding(r)[Len(Planning(r)) + 1 + i].tool_call_id = rq[r].tool_calls[i].id
                /\ Grounding(r)[Len(Planning(r)) + 1 + i].content.wellformed
                /\ Grounding(r)[Len(Planning(r)) + 1 + i].content.object
                      = ResultOf(rq[r].executed[i])]_vars

\* A grounding request was sent after two tool runs, one that failed and one
\* that returned outputs.
C26_Witness ==
    \E r \in Requests :
        /\ Len(rq[r].provider_requests) = 2 /\ Len(rq[r].tool_calls) = 2
        /\ \E i, j \in DOMAIN rq[r].executed :
              IsNone(rq[r].executed[i].outputs) /\ ~IsNone(rq[r].executed[j].outputs)

\* C27: every stored message has role user or assistant; one that carries a
\* tool-invocation summary is an assistant message of a request that ran a
\* tool, and the summary holds entries of that request's runs; user messages
\* and assistant messages of requests that ran no tool carry none.
C27_SummaryOnlyOnToolTurns ==
    \A k \in DOMAIN messages :
        /\ messages[k].role \in {"user", "assistant"}
        /\ ~IsNone(messages[k].tool_invocations) =>
              /\ messages[k].role = "assistant"
              /\ messages[k].tool_invocations[1] # <<>>
              /\ Entries(messages[k].tool_invocations[1])
                    \subseteq Entries(rq[messages[k].by].executed)
        /\ messages[k].role = "user" => IsNone(messages[k].tool_invocations)
        /\ rq[messages[k].by].executed = <<>> => IsNone(messages[k].tool_invocations)

\* An assistant message with a summary of two tool runs is stored next to a
\* user message.
C27_Witness ==
    \E k \in DOMAIN messages :
        /\ ~IsNone(messages[k].tool_invocations) /\ Len(messages[k].tool_invocations[1]) = 2
        /\ \E j \in DOMAIN messages : messages[j].role = "user"

\* C28: a stored message and a stored audit record stay as they are: no step
\* changes a field of one or removes one.
C28_MessagesAndAuditAppendOnly ==
    [][/\ \A k \in DOMAIN messages : k \in DOMAIN messages' /\ messages'[k] = messages[k]
       /\ \A k \in DOMAIN logs : k \in DOMAIN logs' /\ logs'[k] = logs[k]]_vars

\* Two requests have stored messages in one conversation and there are two
\* audit records.
C28_Witness ==
    /\ Len(logs) >= 2
    /\ \E j, k \in DOMAIN messages :
          /\ messages[j].by # messages[k].by
          /\ messages[j].conversation_id = messages[k].conversation_id

\* The task the run of entry e names, if it is a task of user u.
OwnedTask(e, u) == {t \in tasks : t.id = e.inputs.task_id /\ t.user_id = u}

\* Request r has just run delete_task on a task of its user.
DeletedOwnTask(r) ==
    /\ Len(rq'[r].executed) = Len(rq[r].executed) + 1
    /\ NewEntry(r).tool = "delete_task" /\ DOMAIN NewEntry(r).inputs = {"task_id", "user_id"}
    /\ OwnedTask(NewEntry(r), rq[r].user_id) # {}

\* C29: update_task and delete_task on a task id that does not exist or is
\* not the caller's fail with the not-found error and change no task;
\* delete_task on a task of the caller removes that task and changes no other
\* task, and a later delete_task of the same id fails.
C29_NotFoundAndDelete ==
    [][\A r \in Requests :
          /\ RanOnMissingTask(r) =>
                tasks' = tasks /\ TaskNotFound(NewEntry(r))
          /\ DeletedOwnTask(r) =>
                /\ tasks' = tasks \ OwnedTask(NewEntry(r), rq[r].user_id)
                /\ IsNone(NewEntry(r).error)
                /\ NewEntry(r).outputs[1].deleted_task_id = NewEntry(r).inputs.task_id
          /\ \A i, j \in DOMAIN rq'[r].executed :
                (/\ i < j /\ IsNone(rq'[r].executed[i].error)
                 /\ rq'[r].executed[i].tool = "delete_task"
                 /\ OnTaskId(rq'[r].executed[j])
                 /\ rq'[r].executed[j].inputs.task_id = rq'[r].executed[i].inputs.task_id)
                => TaskNotFound(rq'[r].executed[j])]_vars

\* The ids of the task rows this step adds, changes or removes.
ChangedTaskIds == TaskIds((tasks' \ tasks) \cup (tasks \ tasks'))

\* C30: a step of a request changes tasks only when it is a tool run that
\* returned no error, and then only the task of that run; a run that
\* returned an error changes no task, neither at once nor with a later
\* commit of the request (a later tool run, the assistant message, the audit
\* records).
C30_FailedToolLeavesNoWrite ==
    [][\A r \in Requests : rq'[r] # rq[r] =>
          IF Len(rq'[r].executed) = Len(rq[r].executed) + 1 /\ IsNone(NewEntry(r).error)
          THEN ChangedTaskIds \subseteq OutputTaskIds(NewEntry(r))
          ELSE tasks' = tasks]_vars

\* The agent holds the history of request r: from the call of
\* AgentService.chat to its return.
HandedToAgent(r) == rq[r].pc \in {"plan", "tools", "ground", "fallback"}

\* The turns of history h before its last one.
Earlier(h) == SubSeq(h, 1, Len(h) - 1)

\* Turn t is the role and content of a message row of conversation c.
TurnOf(t, c) ==
    \E k \in MessagesOf(c) : messages[k].role = t.role /\ messages[k].content = t.content

\* The history request r handed to the agent ends with the request's own
\* message, and before it come at most HistoryLimit turns, each a message of
\* the request's conversation.
HistoryOfRequest(r) ==
    /\ rq[r].conversation_history # <<>>
    /\ rq[r].conversation_history[Len(rq[r].conversation_history)] =
          [role |-> "user", content |-> rq[r].message]
    /\ Len(Earlier(rq[r].conversation_history)) <= HistoryLimit
    /\ \A i \in DOMAIN Earlier(rq[r].conversation_history) :
          TurnOf(rq[r].conversation_history[i], rq[r].conversation_id)

\* load_conversation_messages returns at most `limit` turns.
LoadsAtMostLimit ==
    \A c \in DOMAIN conversations : \A L \in Limits :
        \A h \in Histories(c, L) : Len(h) <= L

\* What the except branch answers for the message of request r.
AnswerFor(r) == Fallback(rq[r].message, rq[r].user_id, SessionTasks(r), task_seq)

\* C31: the history handed to the agent ends with the current request's user
\* message, has at most 50 earlier turns, all of them messages of the
\* resolved conversation (a load never returns more than its limit); and the
\* except branch answers for the current request's message.
C31_HistoryEndsWithCurrentMessage ==
    [][/\ messages' # messages => LoadsAtMostLimit'
       /\ \A r \in Requests :
             /\ rq'[r] # rq[r] /\ HandedToAgent(r)' => HistoryOfRequest(r)'
             /\ rq[r].pc = "fallback" /\ rq'[r].pc = "asst_seq" =>
                   /\ rq'[r].response_text = Some(AnswerFor(r).response_text)
                   /\ rq'[r].tool_invocations = AnswerFor(r).tool_invocations]_vars

\* A request that continued a conversation with another message than the
\* conversation's first one was answered by the except branch, for its own
\* message: "add eggs" after "hi" created a task.
C31_Witness ==
    \E r \in Requests :
        /\ rq[r].fell_back /\ ~IsNone(rq[r].request_conversation_id)
        /\ rq[r].message = "add eggs"
        /\ \E k \in MessagesOf(rq[r].conversation_id) :
              messages[k].role = "user" /\ messages[k].content = "hi" /\ messages[k].by # r
        /\ rq[r].tool_invocations # <<>>
        /\ rq[r].tool_invocations[1].tool = "create_task"

\* The audit records that refer to message m, in the order they were stored.
AuditRecordsOf(m) == SelectSeq(logs, LAMBDA l : l.message_id = m)

\* Audit record l was written for entry e of a turn of user u.
RecordsEntry(l, e, u) ==
    /\ l.user_id = u
    /\ l.tool_name = e.tool /\ l.inputs = e.inputs
    /\ l.success = IsNone(e.error) /\ l.error_message = e.error

\* The records `rows` are the first entries of the list `entries`, in order.
RecordsInOrder(rows, entries, u) ==
    /\ Len(rows) <= Len(entries)
    /\ \A i \in DOMAIN rows : RecordsEntry(rows[i], entries[i], u)

\* Message m is an assistant message of a conversation of user u that stores
\* the list of entries of its turn.
AssistantTurnOf(m, u) ==
    /\ messages[m].role = "assistant"
    /\ conversations[messages[m].conversation_id].user_id = u
    /\ ~IsNone(messages[m].tool_invocations)

\* C32: every audit record refers to an assistant message; that message was
\* appended by a request of the record's user, to a conversation of that
\* user; and the records of one assistant message are, in the order stored,
\* the first entries of the message's tool_invocations list.
C32_AuditRecordsOfTurn ==
    /\ \A i \in DOMAIN logs : logs[i].message_id \in DOMAIN messages
    /\ \A m \in DOMAIN messages :
          AuditRecordsOf(m) # <<>> =>
              /\ AssistantTurnOf(m, rq[messages[m].by].user_id)
              /\ rq[messages[m].by].assistant_message_id = m
              /\ RecordsInOrder(AuditRecordsOf(m), messages[m].tool_invocations[1],
                                rq[messages[m].by].user_id)

\* A request was answered after a turn of two different tool calls, and both
\* audit records are stored.
C32_Witness ==
    \E r \in Requests :
        /\ rq[r].pc = "done" /\ Len(rq[r].tool_invocations) = 2
        /\ rq[r].tool_invocations[1].tool # rq[r].tool_invocations[2].tool
        /\ Len(AuditRecordsOf(rq[r].assistant_message_id)) = 2

\* The task rows this step adds under an id no row had.
CreatedTasks == {t \in tasks' : t.id \notin TaskIds(tasks)}

\* Entry e reports a create_task that returned the dict of a new task.
CreateSucceeded(e) == e.tool = "create_task" /\ IsNone(e.error)

\* C33: whatever the provider's arguments, a task row that a tool run of a
\* request adds belongs to the request's user and is not completed, and every
\* create_task run that returned without error, on the planning path or in
\* the except branch, added such a row under the id it reports.
C33_CreatedTaskOwnedAndOpen ==
    [][\A r \in Requests :
          Len(rq'[r].executed) > Len(rq[r].executed) =>
             /\ \A t \in CreatedTasks : t.user_id = rq[r].user_id /\ t.completed = FALSE
             /\ \A i \in DOMAIN rq'[r].executed \ DOMAIN rq[r].executed :
                   CreateSucceeded(rq'[r].executed[i]) =>
                      \E t \in CreatedTasks : t.id = rq'[r].executed[i].outputs[1].task_id]_vars

\* A request created one task by a tool call the provider planned and, after
\* the grounding call failed, another in the except branch; both rows belong
\* to its user and are open.
C33_Witness ==
    \E r \in Requests :
        /\ rq[r].fell_back /\ Len(rq[r].executed) > Len(rq[r].tool_calls)
        /\ CreateSucceeded(rq[r].executed[1])
        /\ CreateSucceeded(rq[r].executed[Len(rq[r].executed)])
        /\ \A i \in {1, Len(rq[r].executed)} :
              \E t \in tasks : /\ t.id = rq[r].executed[i].outputs[1].task_id
                               /\ t.user_id = rq[r].user_id /\ t.completed = FALSE

\* Row new is row old with at most the fields named in `supplied` changed.
OnlySuppliedChanged(old, new, supplied) ==
    /\ new.id = old.id /\ new.user_id = old.user_id
    /\ "title" \notin supplied => new.title = old.title
    /\ "description" \notin supplied => new.description = old.description
    /\ "completed" \notin supplied => new.completed = old.completed

\* The step from tasks to tasks' is an update of the task of entry e in the
\* fields entry e supplied, and of nothing else.
UpdatesOnlyTarget(e) ==
    /\ TaskIds(tasks') = TaskIds(tasks)
    /\ \A t \in tasks :
          IF t.id = e.inputs.task_id
          THEN \A t2 \in tasks' : t2.id = t.id => OnlySuppliedChanged(t, t2, DOMAIN e.inputs)
          ELSE t \in tasks'

\* C34: an update_task run that returned without error changes, in the task
\* table, only the fields of its target task that its arguments supplied:
\* the target's id, owner and other fields, and all other tasks, stay as
\* they were.
C34_UpdateChangesOnlySupplied ==
    [][\A r \in Requests :
          (/\ Len(rq'[r].executed) = Len(rq[r].executed) + 1
           /\ NewEntry(r).tool = "update_task" /\ IsNone(NewEntry(r).error))
          => UpdatesOnlyTarget(NewEntry(r))]_vars

\* This step is the commit of an add_message of request r.
AddsMessage(r) ==
    /\ rq[r].pc \in {"user_commit", "asst_commit"} /\ rq'[r].pc # rq[r].pc
    /\ Len(messages') > Len(messages)

\* C35: the commit of an add_message on a conversation leaves the
\* conversation's updated_at not earlier than it was and not earlier than
\* created_at, and leaves every other conversation's timestamps as they were.
C35_UpdatedAtNeverEarlier ==
    [][\A r \in Requests : AddsMessage(r) =>
          /\ conversations'[rq[r].conversation_id].updated_at
                >= conversations[rq[r].conversation_id].updated_at
          /\ conversations'[rq[r].conversation_id].updated_at
                >= conversations[rq[r].conversation_id].created_at
          /\ \A c \in DOMAIN conversations \ {rq[r].conversation_id} :
                conversations'[c] = conversations[c]]_vars

====
